---- MODULE Spec2Model ----
(***************************************************************************)
(* A model of the Mollie API client's transport and iteration core:        *)
(*   - makeRetrying: the request/response interceptors that re-attempt     *)
(*     requests answered with 5xx, and the Idempotency-Key header added    *)
(*     to POST and DELETE requests;                                        *)
(*   - NetworkClient: post/get/list/patch/delete and throwApiError.        *)
(***************************************************************************)
EXTENDS Integers, Sequences, FiniteSets, TLC

(***************************************************************************)
(* Bounds of the model.                                                    *)
(***************************************************************************)
\* Number of logical requests made through one client (they may overlap).
NumRequests == 2
\* Longest Retry-After header value, in characters.
MaxHeaderLen == 3
\* Longest chain of combinators applied to iterate().
MaxChainLen == 3
\* Most pages the server holds for one list, and most items in one page.
MaxPages == 2
MaxPageLen == 7
\* Largest n of the take(n) the consumer iterates through.
MaxTake == 3

(***************************************************************************)
(* Program constants.                                                      *)
(***************************************************************************)
\* const retryDelay = 2e3;
retryDelay == 2000
\* const attemptLimit = 3;
attemptLimit == 3
\* const iteratorLowWaterMark = 5.5; twice the mark, to stay within the integers.
iteratorLowWaterMarkTwice == 11

VARIABLES
    call,           \* per logical request: the state of the NetworkClient call
    sent,           \* per logical request: the attempts put on the wire, in order
    keysGenerated,  \* how many idempotency keys randomBytes has produced so far
    observed,       \* per logical request: what its attempts were answered with
    retryAfterHeader, \* the Retry-After header of a 5xx response being handled
    chosenDelay,      \* the delay the response interceptor chose for it, if it has
    chain,            \* the combinators applied to iterate(), in the order applied
    firstRequest,     \* the limit of the first page request, once it is made
    usageError,       \* the combinator call that last failed with a usage error
    pages,            \* the number of items in each page the server holds
    takeCount,        \* the n of take(n) the consumer iterates through, if any
    iter,             \* the generator iterate(): position, locals, requests, output
    listCall,         \* one call of NetworkClient.list: attempts, answers, result
    drain             \* a chain being consumed: what each combinator and the source did

transportVars == <<call, sent, keysGenerated, observed>>
retryAfterVars == <<retryAfterHeader, chosenDelay>>
demandVars == <<chain, firstRequest, usageError>>
iterateVars == <<pages, takeCount, iter>>
listVars == <<listCall>>
drainVars == <<drain>>
vars == <<call, sent, keysGenerated, observed, retryAfterHeader, chosenDelay,
          chain, firstRequest, usageError, pages, takeCount, iter, listCall,
          drain>>

(***************************************************************************)
(* Small helpers.                                                          *)
(***************************************************************************)
Min(a, b) == IF a <= b THEN a ELSE b

\* An optional value is a sequence of length 0 (undefined) or 1.
None == <<>>
Some(x) == <<x>>

(***************************************************************************)
(* Transport: makeRetrying and NetworkClient.                              *)
(***************************************************************************)
Requests == 1..NumRequests

\* The NetworkClient methods and the axios function each one calls.
Methods == {"post", "get", "list", "patch", "delete"}

verbOf(method) ==
    CASE method = "post" -> "POST"
      [] method = "get" -> "GET"
      [] method = "list" -> "GET"
      [] method = "patch" -> "PATCH"
      [] method = "delete" -> "DELETE"

\* The statuses a server answers with in the model: two 2xx (one of them 204), a
\* 4xx, and two 5xx.
Statuses == {200, 204, 404, 500, 503}

\* Retry-After header values of a response: present or not, and the characters.
NoHeader == [present |-> FALSE, value |-> <<>>]
Header(chars) == [present |-> TRUE, value |-> chars]

\* What one attempt ends with: a response, no response at all (network error,
\* timeout), or an error that is not an Axios error carrying the attempt index.
\* The responses of the transport model carry no Retry-After header; the delay
\* chosen for every header value is the subject of RetryAfterSpec below.
Outcomes ==
    [kind : {"response"}, status : Statuses, retryAfter : {NoHeader}]
    \cup [kind : {"noResponse", "foreign"}, status : {0}, retryAfter : {NoHeader}]

\* axios' default validateStatus: status >= 200 && status < 300.
validateStatus(status) == status >= 200 /\ status < 300

Digits == {"0", "1", "2", "3", "4", "5", "6", "7", "8", "9"}

DigitValue(c) ==
    CASE c = "0" -> 0 [] c = "1" -> 1 [] c = "2" -> 2 [] c = "3" -> 3
      [] c = "4" -> 4 [] c = "5" -> 5 [] c = "6" -> 6 [] c = "7" -> 7
      [] c = "8" -> 8 [] c = "9" -> 9

\* The number of leading characters of s (from position i on) that are digits.
RECURSIVE DigitRun(_, _)
DigitRun(s, i) ==
    IF i <= Len(s) /\ s[i] \in Digits THEN 1 + DigitRun(s, i + 1) ELSE 0

\* The value of the decimal digits s[i..j], read left to right.
RECURSIVE DigitsValue(_, _, _)
DigitsValue(s, i, j) ==
    IF j < i THEN 0 ELSE 10 * DigitsValue(s, i, j - 1) + DigitValue(s[j])

\* JavaScript's parseInt(string, 10): skips leading white space, reads an optional
\* sign, then the longest run of decimal digits; NaN (None here) when that run is
\* empty. parseInt(undefined, 10) is NaN.
parseInt10(header) ==
    IF ~header.present THEN None
    ELSE LET s == header.value
             ws == CHOOSE k \in 0..Len(s) :
                       /\ \A i \in 1..k : s[i] = " "
                       /\ (k < Len(s) => s[k + 1] # " ")
             signed == ws < Len(s) /\ s[ws + 1] \in {"+", "-"}
             first == IF signed THEN ws + 2 ELSE ws + 1
             n == DigitRun(s, first)
             magnitude == DigitsValue(s, first, first + n - 1)
         IN  IF n = 0 THEN None
             ELSE Some(IF signed /\ s[ws + 1] = "-" THEN 0 - magnitude ELSE magnitude)

\* function parseRetryAfterHeader(response): the delay in milliseconds, or undefined.
parseRetryAfterHeader(response) ==
    LET retryAfter == parseInt10(response.retryAfter)
    IN  IF retryAfter = None THEN None ELSE Some(retryAfter[1] * 1000)

\* A variant of delayFor with || in the place of ??.
delayForFalsy(response) ==
    LET parsed == parseRetryAfterHeader(response)
    IN  IF parsed = None \/ parsed[1] = 0 THEN retryDelay ELSE parsed[1]

\* const delay = parseRetryAfterHeader(error.response) ?? retryDelay;
delayFor(response) ==
    LET parsed == parseRetryAfterHeader(response)
    IN  IF parsed = None THEN retryDelay ELSE parsed[1]

\* A variant of generateIdempotencyHeader with the key computed once, for the whole
\* client, instead of once per call.
generateIdempotencyHeaderOnce(generated) == 1

\* generateIdempotencyHeader: randomBytes(18) in base64. The 144 random bits are
\* modelled as a value no earlier call returned: generated is the number of keys
\* generated so far.
generateIdempotencyHeader(generated) == generated + 1

\* A variant of newConfig with the header added to every request, whatever its verb
\* (as a request interceptor would add it).
newConfigKeyedForAll(method, generated) ==
    [ method |-> method,
      attemptIndex |-> None,
      idempotencyKey |-> Some(generated + 1) ]

\* The configuration the NetworkClient method hands to axios. axiosInstance.post and
\* axiosInstance.delete are the overwritten functions, which add the header; get
\* and patch are axios' own.
newConfig(method, generated) ==
    [ method |-> method,
      attemptIndex |-> None,
      idempotencyKey |-> IF verbOf(method) \in {"POST", "DELETE"}
                         THEN Some(generateIdempotencyHeader(generated))
                         ELSE None ]

\* A variant of requestInterceptor with 0 as the default in the place of -1.
requestInterceptorDefaultZero(config) ==
    [config EXCEPT !.attemptIndex =
        Some((IF config.attemptIndex = None THEN 0 ELSE config.attemptIndex[1]) + 1)]

\* The request interceptor: config[attemptIndex] = (config[attemptIndex] ?? -1) + 1.
requestInterceptor(config) ==
    [config EXCEPT !.attemptIndex =
        Some((IF config.attemptIndex = None THEN -1 ELSE config.attemptIndex[1]) + 1)]

\* What goes on the wire for a configuration.
wireRequest(config) ==
    [ verb |-> verbOf(config.method),
      attemptIndex |-> config.attemptIndex[1],
      idempotencyKey |-> config.idempotencyKey ]

\* The error axios rejects with for an outcome of an attempt made with config.
errorOf(config, outcome) ==
    [ isAxiosError |-> outcome.kind # "foreign",
      attemptIndex |-> IF outcome.kind = "foreign" THEN None ELSE config.attemptIndex,
      response |-> IF outcome.kind = "response"
                   THEN Some([status |-> outcome.status,
                              retryAfter |-> outcome.retryAfter,
                              attempt |-> config.attemptIndex[1]])
                   ELSE None ]

\* function checkError(error).
checkError(error) == error.isAxiosError /\ error.attemptIndex # None

\* A variant of shouldRetry that gives up only after the attempt index has passed
\* the limit.
shouldRetryPastLimit(error) ==
    /\ checkError(error)
    /\ error.attemptIndex[1] <= attemptLimit
    /\ error.response # None
    /\ error.response[1].status \div 100 = 5

\* A variant of shouldRetry with the limit compared off by one.
shouldRetryOffByOne(error) ==
    /\ checkError(error)
    /\ error.attemptIndex[1] # attemptLimit
    /\ error.response # None
    /\ error.response[1].status \div 100 = 5

\* A variant of shouldRetry without the check of the status class.
shouldRetryAnyStatus(error) ==
    /\ checkError(error)
    /\ error.attemptIndex[1] # attemptLimit - 1
    /\ error.response # None

\* The response interceptor's decision for an error: whether another attempt is
\* scheduled.
shouldRetry(error) ==
    /\ checkError(error)
    /\ error.attemptIndex[1] # attemptLimit - 1
    /\ error.response # None
    /\ error.response[1].status \div 100 = 5

\* A variant of throwApiError that gives up silently on a cause without a response
\* (the call resolves to undefined).
throwApiErrorOnlyForResponse(cause) ==
    IF cause.response # None
    THEN [ kind |-> "rejected", value |-> "ApiError.createFromResponse",
           status |-> cause.response[1].status, attempt |-> cause.response[1].attempt ]
    ELSE [ kind |-> "resolved", value |-> "data", status |-> 0, attempt |-> 0 ]

\* throwApiError(cause): ApiError.createFromResponse when the cause has a response,
\* otherwise an ApiError with the cause's message.
throwApiError(cause) ==
    IF cause.response # None
    THEN [ kind |-> "rejected", value |-> "ApiError.createFromResponse",
           status |-> cause.response[1].status, attempt |-> cause.response[1].attempt ]
    ELSE [ kind |-> "rejected", value |-> "ApiError.message", status |-> 0, attempt |-> 0 ]

\* A variant of resolveResponse with the 204 check made in every method.
resolveResponseNoContentForAll(method, status, attempt) ==
    [ kind |-> "resolved",
      value |-> IF status = 204 THEN "true" ELSE "data",
      status |-> status, attempt |-> attempt ]

\* What the NetworkClient method resolves to for a response axios fulfilled with.
resolveResponse(method, status, attempt) ==
    [ kind |-> "resolved",
      value |-> IF method \in {"post", "delete"} /\ status = 204 THEN "true" ELSE "data",
      status |-> status, attempt |-> attempt ]

NoResult == [kind |-> "none", value |-> "", status |-> 0, attempt |-> 0]

IdleCall ==
    [ st |-> "idle", config |-> [method |-> "get", attemptIndex |-> None, idempotencyKey |-> None],
      delay |-> 0, result |-> NoResult ]

\* What is remembered of the answers to a request's attempts: whether the latest
\* outcome was a response, its status class, the attempt it answered, and whether
\* every outcome so far was a 5xx response.
NothingObserved ==
    [answered |-> FALSE, hasResponse |-> FALSE, class |-> 0, attempt |-> 0,
     allServerErrors |-> TRUE]

observe(before, config, outcome) ==
    [ answered |-> TRUE,
      hasResponse |-> outcome.kind = "response",
      class |-> outcome.status \div 100,
      attempt |-> config.attemptIndex[1],
      allServerErrors |-> /\ before.allServerErrors
                          /\ outcome.kind = "response"
                          /\ outcome.status \div 100 = 5 ]

TransportInit ==
    /\ call = [r \in Requests |-> IdleCall]
    /\ sent = [r \in Requests |-> <<>>]
    /\ keysGenerated = 0
    /\ observed = [r \in Requests |-> NothingObserved]

\* axiosInstance.request(config): the request interceptor runs, and the attempt is
\* put on the wire.
dispatch(r, config) ==
    LET tagged == requestInterceptor(config)
    IN  /\ call' = [call EXCEPT ![r] = [@ EXCEPT !.st = "inflight", !.config = tagged, !.delay = 0]]
        /\ sent' = [sent EXCEPT ![r] = Append(@, wireRequest(tagged))]

\* A NetworkClient method is called: request r starts. Requests are numbered in the
\* order in which they are started.
Call(r, method) ==
    /\ call[r].st = "idle"
    /\ r > 1 => call[r - 1].st # "idle"
    /\ dispatch(r, newConfig(method, keysGenerated))
    /\ keysGenerated' = IF verbOf(method) \in {"POST", "DELETE"}
                        THEN keysGenerated + 1 ELSE keysGenerated
    /\ UNCHANGED observed
    /\ UNCHANGED <<retryAfterVars, demandVars, iterateVars, listVars, drainVars>>

\* The attempt in flight for r ends with outcome: axios fulfils or rejects, the
\* response interceptor runs, and the NetworkClient method resolves, rejects, or
\* waits for the scheduled attempt.
Respond(r, outcome) ==
    /\ call[r].st = "inflight"
    /\ LET config == call[r].config
           error == errorOf(config, outcome)
       IN  IF outcome.kind = "response" /\ validateStatus(outcome.status)
           THEN call' = [call EXCEPT ![r] = [@ EXCEPT
                    !.st = "done",
                    !.result = resolveResponse(config.method, outcome.status,
                                               config.attemptIndex[1])]]
           ELSE IF shouldRetry(error)
           THEN call' = [call EXCEPT ![r] = [@ EXCEPT
                    !.st = "delay", !.delay = delayFor(error.response[1])]]
           ELSE call' = [call EXCEPT ![r] = [@ EXCEPT
                    !.st = "done", !.result = throwApiError(error)]]
    /\ observed' = [observed EXCEPT ![r] = observe(@, call[r].config, outcome)]
    /\ UNCHANGED <<sent, keysGenerated>>
    /\ UNCHANGED <<retryAfterVars, demandVars, iterateVars, listVars, drainVars>>

\* A variant of TimerFires in which the next attempt does not wait for the
\* response to the attempt in flight.
TimerFiresEarly(r) ==
    /\ call[r].st \in {"delay", "inflight"}
    /\ Len(sent[r]) < attemptLimit
    /\ dispatch(r, call[r].config)
    /\ UNCHANGED <<keysGenerated, observed>>
    /\ UNCHANGED <<retryAfterVars, demandVars, iterateVars, listVars, drainVars>>

\* The timer set by the response interceptor fires: axiosInstance.request(config).
TimerFires(r) ==
    /\ call[r].st = "delay"
    /\ dispatch(r, call[r].config)
    /\ UNCHANGED <<keysGenerated, observed>>
    /\ UNCHANGED <<retryAfterVars, demandVars, iterateVars, listVars, drainVars>>

TransportNext ==
    \/ \E r \in Requests, method \in Methods : Call(r, method)
    \/ \E r \in Requests, outcome \in Outcomes : Respond(r, outcome)
    \/ \E r \in Requests : TimerFires(r)

(***************************************************************************)
(* The delay before a retry, for every Retry-After header value.           *)
(***************************************************************************)
\* The characters a header value is made of in the model: digits, signs, a dot and
\* a letter (an HTTP-date starts with the name of a day). Node's HTTP parser hands
\* header values over without surrounding white space.
HeaderChars == {"0", "1", "5", "-", "+", ".", "W"}

HeaderValues == UNION {[1..n -> HeaderChars] : n \in 0..MaxHeaderLen}

RetryAfterHeaders == {NoHeader} \cup {Header(v) : v \in HeaderValues}

RetryAfterIdle ==
    /\ retryAfterHeader = NoHeader
    /\ chosenDelay = None

\* A 5xx response to an attempt that was not the last, with any header value, is
\* about to be handled.
RetryAfterInit ==
    /\ retryAfterHeader \in RetryAfterHeaders
    /\ chosenDelay = None

\* The response interceptor determines the delay for the response (and schedules
\* the attempt).
DetermineDelay ==
    /\ chosenDelay = None
    /\ chosenDelay' = Some(delayFor([status |-> 503, retryAfter |-> retryAfterHeader, attempt |-> 0]))
    /\ UNCHANGED retryAfterHeader
    /\ UNCHANGED <<transportVars, demandVars, iterateVars, listVars, drainVars>>

\* The scheduled attempt is answered with another 5xx response.
NextServerError(header) ==
    /\ chosenDelay # None
    /\ retryAfterHeader' = header
    /\ chosenDelay' = None
    /\ UNCHANGED <<transportVars, demandVars, iterateVars, listVars, drainVars>>

RetryAfterNext ==
    \/ DetermineDelay
    \/ \E header \in RetryAfterHeaders : NextServerError(header)

(***************************************************************************)
(* Demand planning: the size of the first page request of a chain.         *)
(***************************************************************************)
\* The page sizes of the API: the largest page, and the page requested when the
\* demand is unknown.
MAX_PAGE_SIZE == 250
DEFAULT_PAGE_SIZE == 128

\* Demand: Unbounded, or Bounded(n).
Unbounded == None
Bounded(n) == Some(n)

Take(n) == [op |-> "take", n |-> n]
Drop(n) == [op |-> "drop", n |-> n]
Filter == [op |-> "filter", n |-> 0]
Map == [op |-> "map", n |-> 0]

\* The combinators a chain is built from in the model.
Combinators ==
    {Take(n) : n \in {80, 100, 300, 3218}} \cup {Drop(10), Filter, Map}

\* A variant of transform in which a filter passes the demand on unchanged.
transformFilterTransparent(node, downReq) ==
    CASE node.op = "take" ->
            IF downReq = Unbounded THEN Bounded(node.n)
            ELSE Bounded(Min(node.n, downReq[1]))
      [] node.op = "drop" ->
            IF downReq = Unbounded THEN Unbounded ELSE Bounded(downReq[1] + node.n)
      [] node.op = "filter" -> downReq
      [] node.op = "map" -> downReq

\* A variant of transform in which a drop passes the demand on unchanged.
transformDropFree(node, downReq) ==
    CASE node.op = "take" ->
            IF downReq = Unbounded THEN Bounded(node.n)
            ELSE Bounded(Min(node.n, downReq[1]))
      [] node.op = "drop" -> downReq
      [] node.op = "filter" -> Unbounded
      [] node.op = "map" -> downReq

\* What a combinator that must deliver downReq items requires of its upstream.
transform(node, downReq) ==
    CASE node.op = "take" ->
            IF downReq = Unbounded THEN Bounded(node.n)
            ELSE Bounded(Min(node.n, downReq[1]))
      [] node.op = "drop" ->
            IF downReq = Unbounded THEN Unbounded ELSE Bounded(downReq[1] + node.n)
      [] node.op = "filter" -> Unbounded
      [] node.op = "map" -> downReq

\* The backward fold: from the combinator applied last (position i) to the one
\* applied first.
RECURSIVE walk(_, _, _)
walk(nodes, i, downReq) ==
    IF i = 0 THEN downReq ELSE walk(nodes, i - 1, transform(nodes[i], downReq))

\* A variant of planDemand that folds from the combinator applied first to the one
\* applied last.
RECURSIVE walkForward(_, _, _)
walkForward(nodes, i, downReq) ==
    IF i > Len(nodes) THEN downReq
    ELSE walkForward(nodes, i + 1, transform(nodes[i], downReq))

planDemandForward(nodes) == walkForward(nodes, 1, Unbounded)

\* The demand of a chain: the consumer drains the whole chain.
planDemand(nodes) == walk(nodes, Len(nodes), Unbounded)

\* The size of the first page request for a demand.
firstPageSize(demand) ==
    IF demand = Unbounded THEN DEFAULT_PAGE_SIZE ELSE Min(demand[1], MAX_PAGE_SIZE)

DemandIdle ==
    /\ chain = <<>>
    /\ firstRequest = None
    /\ usageError = None

DemandInit == DemandIdle

\* Calls of take and drop with a negative count.
InvalidCombinators == {Take(-1), Drop(-1)}

\* A variant of validArgument that accepts every count.
validArgumentAny(node) == TRUE

\* take(n) and drop(n) require n >= 0.
validArgument(node) == node.op \in {"take", "drop"} => node.n >= 0

\* take(n), drop(n), filter(predicate) or map(transform) is called on the sequence
\* built so far; no request is made. A call with an invalid argument throws, and
\* returns no sequence.
Apply(node) ==
    /\ firstRequest = None
    /\ Len(chain) < MaxChainLen
    /\ IF validArgument(node)
       THEN chain' = Append(chain, node) /\ UNCHANGED usageError
       ELSE usageError' = Some(node) /\ UNCHANGED chain
    /\ UNCHANGED firstRequest
    /\ UNCHANGED <<transportVars, retryAfterVars, iterateVars, listVars, drainVars>>

\* The chain is pulled for the first time: the plan is computed and the first page
\* is requested with limit = the planned size.
FirstPull ==
    /\ firstRequest = None
    /\ firstRequest' = Some(firstPageSize(planDemand(chain)))
    /\ UNCHANGED <<chain, usageError>>
    /\ UNCHANGED <<transportVars, retryAfterVars, iterateVars, listVars, drainVars>>

DemandNext ==
    \/ \E node \in Combinators \cup InvalidCombinators : Apply(node)
    \/ FirstPull

(***************************************************************************)
(* Iteration: the generator iterate() and its consumer.                    *)
(***************************************************************************)
\* The lists the server may hold: one to MaxPages pages of 0 to MaxPageLen items.
\* Page p links to page p + 1; the last page has no next link.
PageSources == UNION {[1..n -> 0..MaxPageLen] : n \in 1..MaxPages}

\* What networkClient.list resolves to for page p: the items, and links.next.
pageItems(p) == [i \in 1..pages[p] |-> <<p, i>>]
pageLinks(p) == IF p < Len(pages) THEN Some(p + 1) ELSE None

\* A variant of NewIterator in which the generator's body starts running when the
\* generator is created: the first page is requested at construction.
NewIteratorEager ==
    [ pc |-> "awaitFirst", page |-> 0, currentPage |-> <<>>, links |-> None,
      nextPage |-> None, requests |-> <<1>>, pulls |-> 0, settled |-> 0,
      received |-> <<>>, thrown |-> 0, pendingAtReturn |-> FALSE,
      unhandledRejection |-> FALSE,
      processExited |-> FALSE ]

\* The generator before it is first resumed.
NewIterator ==
    [ pc |-> "start",             \* start, awaitFirst, yield, awaitNext: suspended there;
                                  \* done, threw, returned: completed
      page |-> 0,                 \* which page currentPage is (0: none yet)
      currentPage |-> <<>>,       \* the items of the current page not yet yielded
      links |-> None,             \* currentPage.links.next
      nextPage |-> None,          \* the promise of the next page, if requested
      requests |-> <<>>,          \* the pages requested so far
      pulls |-> 0,                \* how often the consumer asked for an item
      settled |-> 0,              \* the page requests answered so far
      received |-> <<>>,          \* the items the consumer was handed
      thrown |-> 0,               \* the errors the consumer was handed
      pendingAtReturn |-> FALSE,  \* nextPage was pending when the consumer stopped
      unhandledRejection |-> FALSE,  \* a promise was rejected with no handler
      processExited |-> FALSE ]   \* the runtime ended the process on that rejection

\* let currentPage = await networkClient.list(...firstPageArguments)
requestFirstPage(it) ==
    [it EXCEPT !.pc = "awaitFirst", !.requests = Append(@, 1)]

\* A variant of resumeAfterYield without the check that no request is pending.
resumeAfterYieldNoSlotCheck(it) ==
    IF /\ it.links # None
       /\ 2 * Len(it.currentPage) < iteratorLowWaterMarkTwice
    THEN [it EXCEPT !.nextPage = Some([page |-> it.links[1], state |-> "pending"]),
                    !.requests = Append(@, it.links[1])]
    ELSE it

\* A variant of resumeAfterYield that requests the next page only once the buffer
\* is empty.
resumeAfterYieldWhenEmpty(it) ==
    IF /\ it.nextPage = None
       /\ it.links # None
       /\ it.currentPage = <<>>
    THEN [it EXCEPT !.nextPage = Some([page |-> it.links[1], state |-> "pending"]),
                    !.requests = Append(@, it.links[1])]
    ELSE it

\* The check made when the generator is resumed after a yield: request the next
\* page when none is requested, there is one, and the low water mark is hit.
resumeAfterYield(it) ==
    IF /\ it.nextPage = None
       /\ it.links # None
       /\ 2 * Len(it.currentPage) < iteratorLowWaterMarkTwice
    THEN [it EXCEPT !.nextPage = Some([page |-> it.links[1], state |-> "pending"]),
                    !.requests = Append(@, it.links[1])]
    ELSE it

\* A variant of yieldItem that makes the low water mark check before the yield
\* instead of after it.
yieldItemCheckFirst(it) ==
    resumeAfterYield([it EXCEPT !.pc = "yield",
                                !.currentPage = Tail(@),
                                !.received = Append(@, Head(it.currentPage))])

\* A variant of yieldItem that takes the last item of the page (pop) instead of the
\* first (shift).
yieldItemFromEnd(it) ==
    [it EXCEPT !.pc = "yield",
               !.currentPage = SubSeq(@, 1, Len(@) - 1),
               !.received = Append(@, it.currentPage[Len(it.currentPage)])]

\* var item = currentPage.shift(); yield item
yieldItem(it) ==
    [it EXCEPT !.pc = "yield",
               !.currentPage = Tail(@),
               !.received = Append(@, Head(it.currentPage))]

\* currentPage = await nextPage; nextPage = null, for a fulfilled promise.
switchPage(it) ==
    [it EXCEPT !.page = it.nextPage[1].page,
               !.currentPage = pageItems(it.nextPage[1].page),
               !.links = pageLinks(it.nextPage[1].page),
               !.nextPage = None]

\* The inner loop on a page just switched to: an item is yielded, or the page is
\* empty and, no next page being requested, the generator returns.
yieldOrReturn(it) ==
    IF it.currentPage # <<>> THEN yieldItem(it) ELSE [it EXCEPT !.pc = "done"]

\* The generator throws: the consumer is handed the error.
throwToConsumer(it) == [it EXCEPT !.pc = "threw", !.thrown = @ + 1]

\* A variant of runLoop that returns whenever the current page is drained.
runLoopReturnWhenDrained(it) ==
    IF it.currentPage # <<>> THEN yieldItem(it) ELSE [it EXCEPT !.pc = "done"]

\* The generator runs from the top of the inner loop to where it next suspends or
\* completes.
runLoop(it) ==
    IF it.currentPage # <<>> THEN yieldItem(it)
    ELSE IF it.nextPage = None THEN [it EXCEPT !.pc = "done"]
    ELSE IF it.nextPage[1].state = "pending" THEN [it EXCEPT !.pc = "awaitNext"]
    ELSE IF it.nextPage[1].state = "fulfilled" THEN yieldOrReturn(switchPage(it))
    ELSE throwToConsumer(it)

\* Whether the consumer, iterating through take(n), has its n items.
takeSatisfied == takeCount # None /\ Len(iter.received) >= takeCount[1]

IterateIdle ==
    /\ pages = <<0>>
    /\ takeCount = None
    /\ iter = NewIterator

IterateInit ==
    /\ pages \in PageSources
    /\ takeCount \in {None} \cup {Some(n) : n \in 0..MaxTake}
    /\ iter = NewIterator

\* The consumer asks for the next item: the generator is resumed.
Pull ==
    /\ iter.pc \in {"start", "yield"}
    /\ ~iter.processExited
    /\ ~takeSatisfied
    /\ LET pulled == [iter EXCEPT !.pulls = @ + 1]
       IN  iter' = IF iter.pc = "start" THEN requestFirstPage(pulled)
                   ELSE runLoop(resumeAfterYield(pulled))
    /\ UNCHANGED <<pages, takeCount>>
    /\ UNCHANGED <<transportVars, retryAfterVars, demandVars, listVars, drainVars>>

\* The consumer pulls no more: the generator, suspended at a yield or not yet
\* started, is made to return. A pending nextPage promise stays pending.
returnGenerator(it) ==
    [it EXCEPT !.pc = "returned",
               !.pendingAtReturn = it.nextPage # None /\ it.nextPage[1].state = "pending"]

\* take(n) has handed on its n items: it ends the iteration and pulls no more.
TakeEnds ==
    /\ iter.pc \in {"start", "yield"}
    /\ ~iter.processExited
    /\ takeSatisfied
    /\ iter' = returnGenerator(iter)
    /\ UNCHANGED <<pages, takeCount>>
    /\ UNCHANGED <<transportVars, retryAfterVars, demandVars, listVars, drainVars>>

\* The consumer breaks out of its loop after an item: the generator is returned.
Break ==
    /\ iter.pc = "yield"
    /\ ~iter.processExited
    /\ takeCount = None
    /\ iter' = returnGenerator(iter)
    /\ UNCHANGED <<pages, takeCount>>
    /\ UNCHANGED <<transportVars, retryAfterVars, demandVars, listVars, drainVars>>

\* The request for the first page is answered: list resolves or rejects.
FirstPageArrives(ok) ==
    /\ iter.pc = "awaitFirst"
    /\ LET answered == [iter EXCEPT !.settled = @ + 1]
       IN  iter' = IF ok
                   THEN yieldOrReturn([answered EXCEPT !.page = 1,
                                                       !.currentPage = pageItems(1),
                                                       !.links = pageLinks(1)])
                   ELSE throwToConsumer(answered)
    /\ UNCHANGED <<pages, takeCount>>
    /\ UNCHANGED <<transportVars, retryAfterVars, demandVars, listVars, drainVars>>

\* What the runtime does with a promise rejected while no handler is attached to
\* it: it reports the unhandled rejection, and, depending on its version and its
\* unhandled-rejections mode, goes on (a warning) or ends the process.
unhandledRejectionOutcomes(it) ==
    LET reported == [it EXCEPT !.unhandledRejection = TRUE]
    IN  {reported, [reported EXCEPT !.processExited = TRUE]}

\* The request for the next page is answered: the promise nextPage is fulfilled or
\* rejected. The generator continues if it awaits the promise; if nothing awaits
\* a rejected promise, the rejection is unhandled.
NextPageArrives(ok) ==
    /\ iter.nextPage # None
    /\ iter.nextPage[1].state = "pending"
    /\ LET settled == [iter EXCEPT !.settled = @ + 1,
                                    !.nextPage[1].state =
                                       IF ok THEN "fulfilled" ELSE "rejected"]
       IN  iter' \in IF iter.pc = "awaitNext" THEN {runLoop(settled)}
                     ELSE IF ok THEN {settled}
                     ELSE unhandledRejectionOutcomes(settled)
    /\ UNCHANGED <<pages, takeCount>>
    /\ UNCHANGED <<transportVars, retryAfterVars, demandVars, listVars, drainVars>>

IterateNext ==
    \/ Pull
    \/ TakeEnds
    \/ Break
    \/ \E ok \in BOOLEAN : FirstPageArrives(ok)
    \/ \E ok \in BOOLEAN : NextPageArrives(ok)

(***************************************************************************)
(* NetworkClient.list: the envelope of a page.                             *)
(***************************************************************************)
\* response.data of a 2xx response to a list request: nothing (undefined), JSON
\* null, a string (axios hands over an empty body as ''), or an object; the
\* object's _embedded: absent, null, or an object; and whether that object has the
\* property named by the resource type.
NoBody == [data |-> "undefined", embedded |-> "absent", key |-> "absent"]

Bodies ==
    [data : {"undefined", "null", "string"}, embedded : {"absent"}, key : {"absent"}]
    \cup [data : {"object"}, embedded : {"absent", "null"}, key : {"absent"}]
    \cup [data : {"object"}, embedded : {"object"}, key : {"absent", "array"}]

\* A variant of listEnvelope that takes a missing _embedded, or a missing resource
\* key, for an empty page.
listEnvelopeLenient(body, status, attempt) ==
    IF body.data \in {"undefined", "null"}
    THEN [kind |-> "rejected", value |-> "ApiError.unexpectedResponse",
          status |-> status, attempt |-> attempt]
    ELSE [kind |-> "resolved", value |-> "page", status |-> status, attempt |-> attempt]

\* The part of list after the response has arrived. Destructuring undefined or
\* null throws (caught: ApiError); embedded[type] throws a TypeError when embedded
\* is undefined or null; Object.assign throws a TypeError when its target,
\* embedded[type], is undefined.
listEnvelope(body, status, attempt) ==
    IF body.data \in {"undefined", "null"}
    THEN [kind |-> "rejected", value |-> "ApiError.unexpectedResponse",
          status |-> status, attempt |-> attempt]
    ELSE IF body.data # "object" \/ body.embedded # "object"
    THEN [kind |-> "rejected", value |-> "TypeError", status |-> status, attempt |-> attempt]
    ELSE IF body.key # "array"
    THEN [kind |-> "rejected", value |-> "TypeError", status |-> status, attempt |-> attempt]
    ELSE [kind |-> "resolved", value |-> "page", status |-> status, attempt |-> attempt]

\* What a list request is answered with: an outcome of the attempt and, with a 2xx
\* response, the body.
ListAnswers ==
    {a \in [outcome : Outcomes, body : Bodies] :
        \/ a.outcome.kind = "response" /\ validateStatus(a.outcome.status)
        \/ a.body = NoBody}

ListIdle ==
    listCall = [ st |-> "idle", config |-> newConfig("list", 0), delay |-> 0,
                 sent |-> 0, answers |-> <<>>, result |-> NoResult ]

ListInit == ListIdle

\* list is called: axiosInstance.get(...), through the request interceptor.
ListCall ==
    /\ listCall.st = "idle"
    /\ listCall' = [listCall EXCEPT !.st = "inflight",
                                    !.config = requestInterceptor(@),
                                    !.sent = @ + 1]
    /\ UNCHANGED <<transportVars, retryAfterVars, demandVars, iterateVars, drainVars>>

\* The attempt in flight is answered: the response interceptor runs on an error;
\* on a 2xx response list reads the envelope.
ListRespond(answer) ==
    /\ listCall.st = "inflight"
    /\ LET config == listCall.config
           outcome == answer.outcome
           error == errorOf(config, outcome)
           answered == [listCall EXCEPT !.answers = Append(@, answer)]
       IN  listCall' =
              IF outcome.kind = "response" /\ validateStatus(outcome.status)
              THEN [answered EXCEPT
                       !.st = "done",
                       !.result = listEnvelope(answer.body, outcome.status,
                                               config.attemptIndex[1])]
              ELSE IF shouldRetry(error)
              THEN [answered EXCEPT !.st = "delay", !.delay = delayFor(error.response[1])]
              ELSE [answered EXCEPT !.st = "done", !.result = throwApiError(error)]
    /\ UNCHANGED <<transportVars, retryAfterVars, demandVars, iterateVars, drainVars>>

\* The timer set by the response interceptor fires: axiosInstance.request(config).
ListTimerFires ==
    /\ listCall.st = "delay"
    /\ listCall' = [listCall EXCEPT !.st = "inflight",
                                    !.config = requestInterceptor(@),
                                    !.delay = 0,
                                    !.sent = @ + 1]
    /\ UNCHANGED <<transportVars, retryAfterVars, demandVars, iterateVars, drainVars>>

ListNext ==
    \/ ListCall
    \/ \E answer \in ListAnswers : ListRespond(answer)
    \/ ListTimerFires

(***************************************************************************)
(* Consuming a chain of combinators: what is pulled from the source.       *)
(***************************************************************************)
\* Most items the source holds.
MaxSource == 6

\* The combinators of the chains that are consumed item by item in the model.
SmallCombinators == {Take(0), Take(1), Take(2), Drop(1), Drop(2), Map}

SmallChains == UNION {[1..n -> SmallCombinators] : n \in 0..MaxChainLen}

\* A chain not yet pulled, over a source of size items: how many items each
\* combinator has taken or dropped, and how many the source has handed out.
NewDrain(nodes, size) ==
    [ counters |-> [i \in 1..Len(nodes) |-> 0],
      sourceSize |-> size, sourcePulled |-> 0,
      delivered |-> 0, got |-> FALSE, finished |-> FALSE ]

\* One pull at the output of the combinator at position i (0: the source). take(n)
\* ends without pulling once it has yielded n items; drop(n) pulls and discards n
\* items before it hands on the next; map hands on what it pulls.
RECURSIVE pullThrough(_, _, _)
pullThrough(nodes, i, d) ==
    IF i = 0
    THEN IF d.sourcePulled < d.sourceSize
         THEN [d EXCEPT !.sourcePulled = @ + 1, !.got = TRUE]
         ELSE [d EXCEPT !.got = FALSE]
    ELSE CASE nodes[i].op = "take" ->
                IF d.counters[i] >= nodes[i].n THEN [d EXCEPT !.got = FALSE]
                ELSE LET up == pullThrough(nodes, i - 1, d)
                     IN  IF up.got THEN [up EXCEPT !.counters[i] = @ + 1] ELSE up
           [] nodes[i].op = "drop" ->
                IF d.counters[i] < nodes[i].n
                THEN LET up == pullThrough(nodes, i - 1, d)
                     IN  IF up.got
                         THEN pullThrough(nodes, i, [up EXCEPT !.counters[i] = @ + 1])
                         ELSE up
                ELSE pullThrough(nodes, i - 1, d)
           [] OTHER -> pullThrough(nodes, i - 1, d)

DrainIdle == drain = NewDrain(<<>>, 0)

\* A chain of take, drop and map over a source of any size, not yet pulled.
DrainInit ==
    /\ chain \in SmallChains
    /\ firstRequest = None
    /\ usageError = None
    /\ \E size \in 0..MaxSource : drain = NewDrain(chain, size)

\* The consumer asks the chain for the next item.
ConsumerPull ==
    /\ ~drain.finished
    /\ LET pulled == pullThrough(chain, Len(chain), drain)
       IN  drain' = [pulled EXCEPT !.delivered = IF pulled.got THEN @ + 1 ELSE @,
                                   !.finished = ~pulled.got]
    /\ UNCHANGED <<transportVars, retryAfterVars, demandVars, iterateVars, listVars>>

DrainNext == ConsumerPull

(***************************************************************************)
(* Specifications. Each one runs one part of the client; the variables of  *)
(* the other parts stay as they start.                                     *)
(***************************************************************************)
Init == TransportInit /\ RetryAfterIdle /\ DemandIdle /\ IterateIdle /\ ListIdle /\ DrainIdle

Next == TransportNext

\* Any number of overlapping requests through one client.
Spec == Init /\ [][Next]_vars

\* The delay chosen for one 5xx response after another.
InitRetryAfter == RetryAfterInit /\ TransportInit /\ DemandIdle /\ IterateIdle /\ ListIdle /\ DrainIdle

RetryAfterSpec == InitRetryAfter /\ [][RetryAfterNext]_vars

\* Building a chain of combinators and pulling it for the first time.
InitDemand == DemandInit /\ TransportInit /\ RetryAfterIdle /\ IterateIdle /\ ListIdle /\ DrainIdle

DemandSpec == InitDemand /\ [][DemandNext]_vars

\* One iteration pass over a paginated list, by a consumer that may stop early.
InitIterate == IterateInit /\ TransportInit /\ RetryAfterIdle /\ DemandIdle /\ ListIdle /\ DrainIdle

\* One call of NetworkClient.list, answered with any status and any body.
InitList == ListInit /\ TransportInit /\ RetryAfterIdle /\ DemandIdle /\ IterateIdle /\ DrainIdle

ListSpec == InitList /\ [][ListNext]_vars

\* A chain of take, drop and map consumed to its end.
InitDrain == DrainInit /\ TransportInit /\ RetryAfterIdle /\ IterateIdle /\ ListIdle

DrainSpec == InitDrain /\ [][DrainNext]_vars

IterateSpec == InitIterate /\ [][IterateNext]_vars

(***************************************************************************)
(* Properties of the transport.                                            *)
(***************************************************************************)
AttemptIndices(r) == [i \in 1..Len(sent[r]) |-> sent[r][i].attemptIndex]

IsWrite(r) == verbOf(call[r].config.method) \in {"POST", "DELETE"}

\* C1: a request whose every attempt is answered with a 5xx status is attempted
\* exactly 3 times (attempt indices 0, 1, 2), never a fourth time, and then fails
\* with the error built from the third response.
C1_RetryBound ==
    \A r \in Requests :
        /\ Len(sent[r]) <= 3
        /\ (observed[r].answered /\ observed[r].allServerErrors) =>
              \* Not yet answered three times: the next attempt is scheduled.
              /\ observed[r].attempt < 2 =>
                    /\ call[r].st \in {"delay", "inflight"}
                    /\ call[r].result = NoResult
              /\ call[r].st = "done" =>
                    /\ AttemptIndices(r) = <<0, 1, 2>>
                    /\ call[r].result.kind = "rejected"
                    /\ call[r].result.value = "ApiError.createFromResponse"
                    /\ call[r].result.attempt = 2
                    /\ call[r].result.status \div 100 = 5

C1_Witness ==
    \E r \in Requests :
        /\ call[r].st = "done"
        /\ observed[r].allServerErrors
        /\ Len(sent[r]) = 3
        /\ call[r].result.status = 503

\* The condition under which the claim C2 has another attempt made after a failed
\* one: a response was obtained, its status class is 5xx, and the attempt just
\* made was not the third.
C2_RetryCondition(o) == o.hasResponse /\ o.class = 5 /\ o.attempt # 2

\* C2: when an attempt fails, another attempt of the same request is scheduled
\* (and is the next thing the request does) if and only if a response was obtained,
\* its status class is 5xx and the attempt was not the third; otherwise the request
\* is rejected at once and never attempted again.
C2_RetryIff ==
    [][\A r \in Requests :
          /\ (/\ call[r].st = "inflight"
              /\ call'[r].st # "inflight"
              /\ ~(observed'[r].hasResponse /\ observed'[r].class = 2)) =>
                IF C2_RetryCondition(observed'[r])
                THEN call'[r].st = "delay" /\ call'[r].result = NoResult
                ELSE /\ call'[r].st = "done"
                     /\ call'[r].result.kind = "rejected"
                     /\ sent'[r] = sent[r]
          \* A scheduled attempt is made: same request, next attempt index.
          /\ (call[r].st = "delay" /\ call'[r] # call[r]) =>
                /\ call'[r].st = "inflight"
                /\ Len(sent'[r]) = Len(sent[r]) + 1
          \* Only a scheduled attempt follows a failed one.
          /\ (Len(sent[r]) > 0 /\ sent'[r] # sent[r]) => call[r].st = "delay"
          \* A rejected request is never attempted again.
          /\ call[r].st = "done" => (call'[r] = call[r] /\ sent'[r] = sent[r])
      ]_vars

C2_Witness ==
    /\ \E r \in Requests :
          /\ call[r].st = "delay"
          /\ observed[r].attempt = 1
    /\ \E r \in Requests :
          /\ call[r].st = "done"
          /\ call[r].result.kind = "rejected"
          /\ observed[r].hasResponse
          /\ observed[r].class = 4
          /\ observed[r].attempt = 1

\* C3: all attempts of one POST or DELETE request carry the same Idempotency-Key,
\* and attempts of two distinct POST or DELETE requests never carry the same one.
C3_IdempotencyKeys ==
    /\ \A r \in Requests : \A i, j \in 1..Len(sent[r]) :
          IsWrite(r) => /\ sent[r][i].idempotencyKey # None
                        /\ sent[r][i].idempotencyKey = sent[r][j].idempotencyKey
    /\ \A r1, r2 \in Requests : \A i \in 1..Len(sent[r1]), j \in 1..Len(sent[r2]) :
          (r1 # r2 /\ IsWrite(r1) /\ IsWrite(r2)) =>
              sent[r1][i].idempotencyKey # sent[r2][j].idempotencyKey

C3_Witness ==
    \E r1, r2 \in Requests :
        /\ r1 # r2
        /\ IsWrite(r1) /\ IsWrite(r2)
        /\ Len(sent[r1]) = 3 /\ Len(sent[r2]) = 2
        /\ call[r1].st = "inflight" /\ call[r2].st = "inflight"

\* C4: every attempt of every POST and DELETE request carries an Idempotency-Key,
\* and no attempt of a GET (single resource, list or page) or PATCH carries one.
C4_KeyOnlyOnWrites ==
    \A r \in Requests : \A i \in 1..Len(sent[r]) :
        /\ sent[r][i].verb = verbOf(call[r].config.method)
        /\ (sent[r][i].idempotencyKey # None) <=> (sent[r][i].verb \in {"POST", "DELETE"})
        /\ call[r].config.method \in {"get", "list", "patch"} =>
              sent[r][i].idempotencyKey = None

C4_Witness ==
    \E r1, r2 \in Requests :
        /\ call[r1].config.method = "list" /\ Len(sent[r1]) = 3
        /\ call[r2].config.method = "delete" /\ Len(sent[r2]) = 3

(***************************************************************************)
(* Properties of the retry delay.                                          *)
(***************************************************************************)
RECURSIVE Pow10(_)
Pow10(n) == IF n = 0 THEN 1 ELSE 10 * Pow10(n - 1)

RECURSIVE PlaceValueSum(_, _)
\* The number written by the digits in s, as the sum of digit * 10^place.
PlaceValueSum(s, i) ==
    IF i > Len(s) THEN 0
    ELSE DigitValue(s[i]) * Pow10(Len(s) - i) + PlaceValueSum(s, i + 1)

AllDigits(s) == Len(s) > 0 /\ \A i \in 1..Len(s) : s[i] \in Digits

\* A plain integer: decimal digits, with or without a sign in front.
IsPlainInteger(s) ==
    \/ AllDigits(s)
    \/ Len(s) > 1 /\ s[1] \in {"+", "-"} /\ AllDigits(Tail(s))

PlainIntegerValue(s) ==
    IF s[1] = "-" THEN 0 - PlaceValueSum(Tail(s), 1)
    ELSE IF s[1] = "+" THEN PlaceValueSum(Tail(s), 1)
    ELSE PlaceValueSum(s, 1)

\* The prefixes of s that are plain integers.
IntegerPrefixes(s) == {k \in 1..Len(s) : IsPlainInteger(SubSeq(s, 1, k))}

LongestIntegerPrefix(s) ==
    SubSeq(s, 1, CHOOSE k \in IntegerPrefixes(s) : \A m \in IntegerPrefixes(s) : m <= k)

\* The claim C5 as stated: 1000 times the header value when it is a plain integer,
\* 2000 ms for every other value and when the header is absent.
C5_DelayPlainIntegerOnly ==
    chosenDelay # None =>
        chosenDelay[1] =
            IF retryAfterHeader.present /\ IsPlainInteger(retryAfterHeader.value)
            THEN 1000 * PlainIntegerValue(retryAfterHeader.value)
            ELSE 2000

\* C5 (amended): the delay is 1000 times the header value when the value is a plain
\* integer; when the value only starts with a plain integer (as in "1.5" or "5W")
\* it is 1000 times the longest such start; it is 2000 ms when the header is absent
\* or its value does not start with an integer (as an HTTP-date).
C5_DelayLeadingInteger ==
    chosenDelay # None =>
        /\ (retryAfterHeader.present /\ IsPlainInteger(retryAfterHeader.value)) =>
              chosenDelay[1] = 1000 * PlainIntegerValue(retryAfterHeader.value)
        /\ chosenDelay[1] =
              IF retryAfterHeader.present /\ IntegerPrefixes(retryAfterHeader.value) # {}
              THEN 1000 * PlainIntegerValue(LongestIntegerPrefix(retryAfterHeader.value))
              ELSE 2000

C5_Witness == retryAfterHeader = Header(<<"1", ".", "5">>) /\ chosenDelay = Some(1000)

(***************************************************************************)
(* Properties of the demand planning.                                      *)
(***************************************************************************)
Positions(nodes, op) == {i \in 1..Len(nodes) : nodes[i].op = op}

\* The combinators applied before the first filter.
BeforeFilters(nodes) ==
    {i \in 1..Len(nodes) : \A j \in 1..i : nodes[j].op # "filter"}

RECURSIVE DroppedBefore(_, _)
\* The number of items dropped by the drops applied before position i.
DroppedBefore(nodes, i) ==
    IF i <= 1 THEN 0
    ELSE DroppedBefore(nodes, i - 1)
         + (IF nodes[i - 1].op = "drop" THEN nodes[i - 1].n ELSE 0)

\* What each take applied before the first filter lets through, counted in items
\* of the source.
TakeReach(nodes) ==
    {nodes[i].n + DroppedBefore(nodes, i) :
        i \in Positions(nodes, "take") \cap BeforeFilters(nodes)}

ExpectedFirstPageSize(nodes) ==
    IF TakeReach(nodes) = {} THEN 128
    ELSE Min(CHOOSE n \in TakeReach(nodes) : \A m \in TakeReach(nodes) : n <= m, 250)

\* The first-page sizes the tests of demanding-iteration expect.
TestedDemands ==
    << <<  <<>>, 128 >>,
       << <<Take(80)>>, 80 >>,
       << <<Drop(10)>>, 128 >>,
       << <<Drop(10), Take(80)>>, 90 >>,
       << <<Take(80), Drop(10)>>, 80 >>,
       << <<Drop(10), Take(80), Drop(10)>>, 90 >>,
       << <<Take(100), Take(80)>>, 80 >>,
       << <<Take(80), Take(100)>>, 80 >>,
       << <<Take(80), Filter>>, 80 >>,
       << <<Filter, Take(80)>>, 128 >>,
       << <<Take(80), Map>>, 80 >>,
       << <<Map, Take(80)>>, 80 >>,
       << <<Take(300)>>, 250 >>,
       << <<Take(3218)>>, 250 >> >>

\* C6: the limit of the first page request is min(n, 250) when the backward fold
\* over the chain ends in Bounded(n) and 128 when it ends in Unbounded. Folding
\* backward, each take applied before the first filter bounds the demand by its
\* count plus the counts of the drops applied before it; the chains of the tests
\* get the sizes the tests expect.
C6_FirstPageSize ==
    firstRequest # None =>
        /\ firstRequest[1] = ExpectedFirstPageSize(chain)
        /\ \A t \in 1..Len(TestedDemands) :
              chain = TestedDemands[t][1] => firstRequest[1] = TestedDemands[t][2]

C6_Witness ==
    /\ chain = <<Drop(10), Take(80), Drop(10)>>
    /\ firstRequest = Some(90)

SwapAt(nodes, i) ==
    [k \in 1..Len(nodes) |->
        IF k = i THEN nodes[i + 1] ELSE IF k = i + 1 THEN nodes[i] ELSE nodes[k]]

InsertAt(nodes, i, node) ==
    SubSeq(nodes, 1, i) \o <<node>> \o SubSeq(nodes, i + 1, Len(nodes))

RemoveAt(nodes, i) == SubSeq(nodes, 1, i - 1) \o SubSeq(nodes, i + 1, Len(nodes))

\* The first-page request size of a chain.
RequestSize(nodes) == firstPageSize(planDemand(nodes))

\* C7: the demand does not change when two consecutive takes are swapped
\* (take(a).take(b) demands min(a, b) either way) nor when a map is inserted at any
\* position; a take applied after a filter has no effect on the demand, which is
\* Unbounded from the filter on.
C7_DemandAlgebra ==
    /\ \A i \in 1..(Len(chain) - 1) :
          (chain[i].op = "take" /\ chain[i + 1].op = "take") =>
              /\ planDemand(SwapAt(chain, i)) = planDemand(chain)
              /\ Len(chain) = 2 =>
                    planDemand(chain) = Bounded(Min(chain[1].n, chain[2].n))
    /\ \A i \in 0..Len(chain) :
          /\ planDemand(InsertAt(chain, i, Map)) = planDemand(chain)
          /\ RequestSize(InsertAt(chain, i, Map)) = RequestSize(chain)
          /\ firstRequest # None => firstRequest[1] = RequestSize(InsertAt(chain, i, Map))
    /\ \A i \in Positions(chain, "filter") :
          /\ walk(chain, Len(chain), Unbounded) =
                walk(chain, i - 1, Unbounded)
          /\ \A j \in Positions(chain, "take") :
                j > i => planDemand(RemoveAt(chain, j)) = planDemand(chain)

C7_Witness ==
    /\ chain = <<Filter, Take(100), Take(80)>>
    /\ firstRequest = Some(128)

(***************************************************************************)
(* Properties of the iteration.                                            *)
(***************************************************************************)
RECURSIVE ItemsBefore(_)
\* The number of items in the pages before page p.
ItemsBefore(p) == IF p <= 1 THEN 0 ELSE ItemsBefore(p - 1) + pages[p - 1]

TotalAvailable == ItemsBefore(Len(pages) + 1)

\* Every page that links to a next page holds at least one item.
NoEmptyLinkedPage == \A p \in 1..(Len(pages) - 1) : pages[p] > 0

\* C8: fully consuming take(n) yields exactly min(n, totalAvailable) items, and
\* only pages holding items needed for them are requested; in particular no second
\* page is requested when the first page holds the n items. (Stated for lists
\* without an empty page in the middle, and for passes that met no failed request.)
C8_TakeFetchesOnlyNeeded ==
    (takeCount # None /\ NoEmptyLinkedPage /\ iter.pc \in {"returned", "done"}) =>
        /\ Len(iter.received) = Min(takeCount[1], TotalAvailable)
        /\ \A k \in 1..Len(iter.requests) :
              ItemsBefore(iter.requests[k]) < takeCount[1]
        /\ pages[1] >= takeCount[1] => Len(iter.requests) <= 1

\* C9: a consumer that stops pulling after the first yielded item has caused
\* exactly one page request, whatever the first page holds and links to.
C9_StopAfterFirstItem ==
    (Len(iter.received) = 1 /\ iter.pc \in {"yield", "returned"}) =>
        /\ iter.requests = <<1>>
        /\ iter.nextPage = None

C9_Witness ==
    /\ iter.pc = "returned"
    /\ Len(iter.received) = 1
    /\ takeCount = None
    /\ Len(pages) = 2 /\ pages[1] = 2

\* C10: when the consumer stops while the request for the next page is in flight,
\* the outcome of that request never reaches the consumer, and if the request
\* fails the rejection is handled.
C10_AbandonedPrefetchDiscarded ==
    (iter.pc = "returned" /\ iter.pendingAtReturn) =>
        /\ iter.thrown = 0
        /\ \A i \in 1..Len(iter.received) : iter.received[i][1] # iter.nextPage[1].page
        /\ ~iter.unhandledRejection

\* A step in which the generator requests a page after the first one.
RequestsNextPage ==
    /\ iter.requests # <<>>
    /\ Len(iter'.requests) = Len(iter.requests) + 1

\* A step in which the consumer pulls the generator suspended at a yield, on a page
\* with a next link, no request made for it yet, and at most 5 items buffered.
PullsAtLowWater ==
    /\ iter.pc = "yield"
    /\ iter'.pulls = iter.pulls + 1
    /\ iter.links # None
    /\ iter.nextPage = None
    /\ Len(iter.currentPage) <= 5

\* C11, as claimed: the request for the next page is issued while at least one item
\* of the page being consumed is not yet yielded, with at most 5 items buffered.
C11_PrefetchBeforeDrained ==
    [][RequestsNextPage =>
          /\ Len(iter.currentPage) >= 1
          /\ Len(iter.currentPage) <= 5]_vars

\* C11, amended: the request for the next page is issued exactly when the consumer
\* pulls after a yield with at most 5 items buffered (a next link, no request yet);
\* items remain buffered then unless the page arrived with a single item; a yield
\* with fewer than 5 items buffered and no request made is the first yield of its
\* page; and the generator never waits on an empty buffer without a request in
\* flight.
C11_PrefetchAtPullBelowMark ==
    [][/\ RequestsNextPage =>
             /\ PullsAtLowWater
             /\ iter'.requests = Append(iter.requests, iter.links[1])
             /\ Len(iter.currentPage) >= 1 \/ pages[iter.page] = 1
       /\ PullsAtLowWater => RequestsNextPage
       /\ (iter'.pc = "yield" /\ iter'.links # None /\ iter'.nextPage = None) =>
             \/ Len(iter'.currentPage) >= 5
             \/ Len(iter'.currentPage) = pages[iter'.page] - 1
       /\ iter'.pc = "awaitNext" =>
             /\ iter'.nextPage # None
             /\ iter'.nextPage[1].state = "pending"
             /\ iter'.currentPage = <<>>]_vars

C11_Witness ==
    /\ pages[1] = 7
    /\ iter.page = 1
    /\ Len(iter.received) = 3
    /\ Len(iter.currentPage) = 4
    /\ iter.requests = <<1, 2>>
    /\ iter.nextPage # None /\ iter.nextPage[1].state = "pending"

\* The items of pages 1..p, in next-link order.
RECURSIVE ItemsOfPages(_)
ItemsOfPages(p) ==
    IF p = 0 THEN <<>>
    ELSE ItemsOfPages(p - 1) \o [i \in 1..pages[p] |-> <<p, i>>]

\* The first page that is empty or has no next link.
LastPageReached ==
    CHOOSE p \in 1..Len(pages) :
        /\ pages[p] = 0 \/ p = Len(pages)
        /\ \A q \in 1..(p - 1) : pages[q] > 0

\* The pages 1, 2, ..., k.
FirstPages(k) == [p \in 1..k |-> p]

\* Whether a page is requested that was not switched to (yet, or because the
\* request failed).
RequestOutstanding == (iter.page = 0 /\ iter.pulls > 0) \/ iter.nextPage # None

\* C12, as claimed: a full iteration yields exactly the concatenation of the pages
\* in next-link order; every request after the first is for the next link of the
\* page being consumed, and no link is requested twice.
C12_YieldsAllPagesInOrder ==
    /\ iter.pc = "done" => iter.received = ItemsOfPages(Len(pages))
    /\ iter.requests = FirstPages(Len(iter.requests))
    /\ iter.nextPage # None => iter.nextPage[1].page = iter.page + 1

\* C12, amended: a full iteration yields exactly the concatenation, in next-link
\* order, of the pages up to the first page that is empty or has no next link, and
\* has requested exactly those pages; at every moment the items yielded are the
\* first items of the concatenation of all pages, every request after the first is
\* for the next link of the page being consumed, and no link is requested twice.
C12_YieldsPagesInOrderUntilEmpty ==
    /\ iter.pc = "done" =>
          /\ iter.received = ItemsOfPages(LastPageReached)
          /\ iter.requests = FirstPages(LastPageReached)
    /\ Len(iter.received) <= TotalAvailable
    /\ iter.received = SubSeq(ItemsOfPages(Len(pages)), 1, Len(iter.received))
    /\ iter.requests = FirstPages(Len(iter.requests))
    /\ Len(iter.requests) = iter.page + (IF RequestOutstanding THEN 1 ELSE 0)
    /\ iter.nextPage # None =>
          /\ iter.links = Some(iter.page + 1)
          /\ iter.nextPage[1].page = iter.page + 1

C12_Witness ==
    /\ iter.pc = "done"
    /\ Len(pages) = 2 /\ pages[1] = 7 /\ pages[2] = 2
    /\ Len(iter.received) = 9
    /\ iter.requests = <<1, 2>>

(***************************************************************************)
(* Properties of the results of the NetworkClient methods.                 *)
(***************************************************************************)
\* The methods for a single resource.
SingleResourceMethods == {"get", "patch", "delete", "post"}

\* Whether the last attempt of r was answered with a 2xx response.
FinalResponseSuccessful(r) == observed[r].hasResponse /\ observed[r].class = 2

\* C13, as claimed: a single-resource GET, PATCH, DELETE or POST whose final
\* response has status 204 resolves to true, and with any other successful status
\* to the response body.
C13_NoContentIsTrue ==
    \A r \in Requests :
        (/\ call[r].st = "done"
         /\ FinalResponseSuccessful(r)
         /\ call[r].config.method \in SingleResourceMethods) =>
            /\ call[r].result.kind = "resolved"
            /\ call[r].result.value =
                  (IF call[r].result.status = 204 THEN "true" ELSE "data")

\* C13, amended: a POST or DELETE whose final response has status 204 resolves to
\* true; with any other successful status, and for a GET or PATCH with every
\* successful status (204 included), the call resolves to the response body.
C13_NoContentIsTrueForPostAndDelete ==
    \A r \in Requests :
        (/\ call[r].st = "done"
         /\ FinalResponseSuccessful(r)
         /\ call[r].config.method \in SingleResourceMethods) =>
            /\ call[r].result.kind = "resolved"
            /\ call[r].result.attempt = observed[r].attempt
            /\ call[r].result.status \in {200, 204}
            /\ call[r].result.value =
                  (IF /\ call[r].result.status = 204
                      /\ call[r].config.method \in {"post", "delete"}
                   THEN "true" ELSE "data")

C13_Witness ==
    /\ call[1].st = "done" /\ call[1].config.method = "post"
    /\ call[1].result = [kind |-> "resolved", value |-> "true", status |-> 204, attempt |-> 1]
    /\ call[2].st = "done" /\ call[2].config.method = "get"
    /\ call[2].result = [kind |-> "resolved", value |-> "data", status |-> 204, attempt |-> 0]

\* C14: a request that ends in failure (attempt limit reached on 5xx, a response
\* that is not 2xx and not retried, or no response) rejects with an API error:
\* built from the final response when there is one, from the cause's message
\* otherwise; a call resolves only on a 2xx response, and a failure that is not
\* retried ends the call at once.
C14_FailureIsApiError ==
    \A r \in Requests :
        /\ call[r].st = "done" =>
              /\ call[r].result.kind = (IF FinalResponseSuccessful(r)
                                        THEN "resolved" ELSE "rejected")
              /\ (~FinalResponseSuccessful(r) /\ observed[r].hasResponse) =>
                    /\ call[r].result.value = "ApiError.createFromResponse"
                    /\ call[r].result.status \div 100 = observed[r].class
                    /\ call[r].result.attempt = observed[r].attempt
              /\ ~observed[r].hasResponse =>
                    call[r].result.value = "ApiError.message"
        /\ (observed[r].answered /\ call[r].st # "done") =>
              /\ observed[r].hasResponse
              /\ observed[r].class = 5
              /\ observed[r].attempt < attemptLimit - 1

C14_Witness ==
    /\ call[1].st = "done"
    /\ ~observed[1].hasResponse /\ observed[1].attempt = 1
    /\ call[1].result.kind = "rejected" /\ call[1].result.value = "ApiError.message"
    /\ call[2].st = "done"
    /\ observed[2].hasResponse /\ observed[2].class = 4
    /\ call[2].result.kind = "rejected" /\ call[2].result.status = 404

(***************************************************************************)
(* Properties of NetworkClient.list.                                       *)
(***************************************************************************)
\* Whether an answer is a 2xx response.
IsSuccessResponse(answer) ==
    answer.outcome.kind = "response" /\ answer.outcome.status \div 100 = 2

\* Whether a body is a paginated envelope: an object whose _embedded is an object
\* with the resource key.
MatchesEnvelope(body) ==
    body.data = "object" /\ body.embedded = "object" /\ body.key = "array"

LastAnswer == listCall.answers[Len(listCall.answers)]

\* C15: a list request answered with a 2xx response whose body does not match the
\* paginated envelope fails at once with an error to the caller: no further
\* attempt is made and no page is returned. (A 2xx response with a matching body
\* resolves to the page.)
C15_EnvelopeErrorNotRetried ==
    (listCall.answers # <<>> /\ IsSuccessResponse(LastAnswer)) =>
        /\ listCall.st = "done"
        /\ listCall.sent = Len(listCall.answers)
        /\ listCall.result.attempt = Len(listCall.answers) - 1
        /\ listCall.result.kind =
              (IF MatchesEnvelope(LastAnswer.body) THEN "resolved" ELSE "rejected")
        /\ ~MatchesEnvelope(LastAnswer.body) => listCall.result.value # "page"

C15_Witness ==
    /\ Len(listCall.answers) = 2
    /\ listCall.answers[1].outcome.status = 503
    /\ listCall.answers[2].outcome.status = 200
    /\ listCall.answers[2].body = [data |-> "object", embedded |-> "object", key |-> "absent"]
    /\ listCall.st = "done"
    /\ listCall.result.kind = "rejected"

(***************************************************************************)
(* Properties of the requests made by an iteration.                        *)
(***************************************************************************)
\* C16: a sequence that was built (with or without take applied) but not pulled
\* has made no request; the first page is requested when the sequence is first
\* pulled, and exactly once in the iteration pass.
C16_FirstRequestAtFirstPull ==
    /\ iter.pulls = 0 => iter.requests = <<>>
    /\ iter.pulls > 0 =>
          /\ iter.requests # <<>>
          /\ {k \in DOMAIN iter.requests : iter.requests[k] = 1} = {1}

C16_Witness ==
    /\ takeCount = Some(2)
    /\ iter.pulls = 2
    /\ iter.requests = <<1, 2>>
    /\ Len(iter.received) = 2

\* The page requests made and not yet answered.
InFlight(it) == Len(it.requests) - it.settled

\* C18: at most one page request of the iteration is in flight: a request is made
\* only when none is pending, and the nextPage slot is cleared only as the awaited
\* page is switched to.
C18_OneRequestInFlight ==
    [][/\ InFlight(iter') \in {0, 1}
       /\ InFlight(iter') = 1 <=>
             \/ iter'.pc = "awaitFirst"
             \/ iter'.nextPage # None /\ iter'.nextPage[1].state = "pending"
       /\ Len(iter'.requests) > Len(iter.requests) =>
             /\ InFlight(iter) = 0
             /\ iter.nextPage = None
             /\ Len(iter'.requests) = Len(iter.requests) + 1
       /\ (iter.nextPage # None /\ iter'.nextPage = None) =>
             /\ iter.pc = "awaitNext" \/ iter.nextPage[1].state = "fulfilled"
             /\ iter'.page = iter.nextPage[1].page
             /\ iter'.links = pageLinks(iter.nextPage[1].page)]_vars

C18_Witness ==
    /\ pages[1] = 3
    /\ Len(iter.received) = 3
    /\ iter.pulls = 3
    /\ iter.requests = <<1, 2>>
    /\ iter.nextPage # None /\ iter.nextPage[1].state = "pending"

(***************************************************************************)
(* Properties of the arguments of the combinators.                         *)
(***************************************************************************)
\* C17: take(n) or drop(n) with a negative n fails at the call: the step in which
\* the call fails makes no sequence and no request, so no sequence ever holds a
\* negative count and no request is ever made for one.
C17_NegativeCountFailsAtCall ==
    [][/\ usageError' # usageError =>
             /\ usageError'[1] \in InvalidCombinators
             /\ chain' = chain
             /\ firstRequest = None /\ firstRequest' = None
       /\ \A i \in 1..Len(chain') : chain'[i] \notin InvalidCombinators
       /\ \A i \in 1..Len(chain') : chain'[i].n >= 0]_vars

C17_Witness ==
    /\ usageError = Some(Drop(-1))
    /\ chain = <<Take(80)>>
    /\ firstRequest = Some(80)

(***************************************************************************)
(* Properties of the attempts of a request.                                *)
(***************************************************************************)
\* C19: the attempt counter of an outgoing attempt equals the number of earlier
\* attempts of the same request (0 for the first, one more for each retry) and
\* lies in 0..2, whatever other requests are doing meanwhile.
C19_AttemptCounter ==
    \A r \in Requests :
        /\ \A i \in 1..Len(sent[r]) :
              /\ sent[r][i].attemptIndex = i - 1
              /\ sent[r][i].attemptIndex \in 0..2
        /\ call[r].st # "idle" => call[r].config.attemptIndex = Some(Len(sent[r]) - 1)

C19_Witness ==
    /\ call[1].st = "inflight" /\ Len(sent[1]) = 3
    /\ call[2].st = "delay" /\ Len(sent[2]) = 2
    /\ sent[2][2].attemptIndex = 1

\* The requests of the fair specification: two requests that may overlap. Whether a
\* request ends does not depend on how many other requests run beside it.
FairRequests == {1, 2}

\* Every attempt in flight is eventually answered, and every timer set by the
\* response interceptor eventually fires.
Fairness ==
    \A r \in FairRequests :
        /\ WF_vars(\E outcome \in Outcomes : Respond(r, outcome))
        /\ WF_vars(TimerFires(r))

FairNext ==
    \/ \E r \in FairRequests, method \in Methods : Call(r, method)
    \/ \E r \in FairRequests, outcome \in Outcomes : Respond(r, outcome)
    \/ \E r \in FairRequests : TimerFires(r)

\* Overlapping requests, each attempt answered and each delay elapsing.
FairSpec == Init /\ [][FairNext]_vars /\ Fairness

\* C20: provided attempts are answered and delays elapse, every request that was
\* started ends, resolved or rejected, after at most 3 attempts, and once it has
\* ended nothing more happens to it: no further attempt, no other result.
C20_EventuallyTerminal ==
    /\ \A r \in Requests : (call[r].st # "idle") ~> (call[r].st = "done")
    /\ [](\A r \in Requests :
             /\ Len(sent[r]) <= attemptLimit
             /\ call[r].st = "done" <=> call[r].result.kind \in {"resolved", "rejected"})
    /\ [][\A r \in Requests :
             call[r].st = "done" => (call'[r] = call[r] /\ sent'[r] = sent[r])]_vars

C20_Witness ==
    /\ call[1].st = "done" /\ Len(sent[1]) = 3 /\ call[1].result.kind = "resolved"
    /\ call[2].st = "done" /\ Len(sent[2]) = 3 /\ call[2].result.kind = "rejected"

(***************************************************************************)
(* C21: the demand of a chain against what consuming the chain pulls.      *)
(***************************************************************************)
\* The chain has been consumed to its end over a source that holds at least
\* as many items as the demand d the planner computes for it.
DrainedWithDemand(d) ==
    /\ drain.finished
    /\ planDemand(chain) = Bounded(d)
    /\ drain.sourceSize >= d

HasTakeZero == \E i \in 1..Len(chain) : chain[i] = Take(0)

\* C21 (as stated): for every chain of take, drop and map over a source that
\* holds at least as many items as the computed demand Bounded(n), consuming
\* the chain to its end pulls exactly n items from the source.
C21_PullsExactlyDemand ==
    \A d \in 0..(2 * MaxChainLen) :
        DrainedWithDemand(d) => drain.sourcePulled = d

\* C21 (amended): consuming the chain to its end pulls exactly n items from
\* the source when no take of the chain has count 0, and pulls nothing from
\* the source when the chain contains a take(0).
C21_PullsDemandUnlessTakeZero ==
    \A d \in 0..(2 * MaxChainLen) :
        DrainedWithDemand(d) =>
            drain.sourcePulled = (IF HasTakeZero THEN 0 ELSE d)

\* drop(1).take(2).drop(1) consumed to its end: three items pulled, one delivered.
C21_Witness ==
    /\ chain = <<Drop(1), Take(2), Drop(1)>>
    /\ DrainedWithDemand(3)
    /\ drain.sourcePulled = 3
    /\ drain.delivered = 1

(***************************************************************************)
(* C22: a failed page request and a consumer that keeps pulling.           *)
(***************************************************************************)
\* A request for a page, the first or a later one, has failed.
FetchFailed ==
    \/ iter.pc = "threw"
    \/ iter.nextPage # None /\ iter.nextPage[1].state = "rejected"

\* The consumer was handed the error of the failed request, once, at the pull
\* that needed the page, after every item of the pages before it.
ErrorDeliveredInOrder ==
    /\ iter.thrown = 1
    /\ iter.currentPage = <<>>
    /\ iter.received = ItemsOfPages(iter.page)
    /\ iter.pulls = Len(iter.received) + 1

\* C22: when a page request (first page or prefetch) fails and the consumer keeps
\* pulling, the error reaches the consumer exactly once, at the pull that needs
\* that page: until then the consumer can go on pulling and is handed no error,
\* every item buffered from earlier pages is yielded before the error, and nothing
\* is yielded after it.
C22_FailedFetchThrownOnceInOrder ==
    (FetchFailed /\ iter.pc # "returned") =>
        /\ ~iter.processExited
        /\ IF iter.pc = "threw" THEN ErrorDeliveredInOrder ELSE iter.thrown = 0
        /\ iter.pc \in {"yield", "threw"}

(***************************************************************************)
(* C23: when a full iteration ends.                                        *)
(***************************************************************************)
\* The generator, asked for an item, found the current page drained although the
\* page has a continuation link.
DrainedLinkedPage ==
    /\ iter.page >= 1
    /\ iter.currentPage = <<>>
    /\ iter.links # None
    /\ iter.pc \in {"awaitNext", "done", "threw"}

\* C23 (as stated): a full iteration ends only after a page without a
\* continuation link has been completely yielded; as long as the page just drained
\* has a continuation link, also when it arrived empty, the next page is fetched
\* and the iteration does not end.
C23_EndsOnlyWithoutLink ==
    /\ iter.pc = "done" =>
          /\ iter.currentPage = <<>>
          /\ iter.links = None
    /\ DrainedLinkedPage =>
          /\ iter.pc # "done"
          /\ iter.nextPage # None
          /\ iter.requests = FirstPages(iter.page + 1)

\* C23 (amended): a full iteration ends only after a page without a continuation
\* link has been completely yielded, or when a page arrives empty; as long as the
\* page just drained held at least one item and has a continuation link, the next
\* page is fetched and the iteration does not end.
C23_EndsWithoutLinkOrOnEmptyPage ==
    /\ iter.pc = "done" =>
          /\ iter.page >= 1
          /\ iter.currentPage = <<>>
          /\ iter.nextPage = None
          /\ iter.links = None \/ pages[iter.page] = 0
    /\ (DrainedLinkedPage /\ pages[iter.page] > 0) =>
          /\ iter.pc # "done"
          /\ iter.nextPage # None
          /\ iter.requests = FirstPages(iter.page + 1)

\* Two pages with items, iterated to the end of the second one, after the
\* generator had waited for the second page.
C23_Witness ==
    /\ Len(pages) = 2
    /\ pages[1] > 0
    /\ iter.pc = "done"
    /\ iter.page = 2
    /\ iter.links = None
    /\ Len(iter.received) = TotalAvailable

(***************************************************************************)
(* C24: the attempts of one request follow one another.                    *)
(***************************************************************************)
\* The attempts of r that have been answered, and those still in flight.
AnsweredAttempts(r) == IF observed[r].answered THEN observed[r].attempt + 1 ELSE 0

AttemptsInFlight(r) == Len(sent[r]) - AnsweredAttempts(r)

\* C24: the attempts of one request are strictly sequential: attempt k+1 is issued
\* only when attempt k has been answered with a 5xx response and the delay chosen
\* for the retry has then elapsed (the timer set for it fires), so never are two
\* attempts of one request in flight at the same time.
C24_AttemptsSequential ==
    /\ [](\A r \in Requests :
             /\ AttemptsInFlight(r) \in {0, 1}
             /\ AttemptsInFlight(r) = 1 <=> call[r].st = "inflight")
    /\ [][\A r \in Requests :
             (Len(sent[r]) > 0 /\ sent'[r] # sent[r]) =>
                 /\ AttemptsInFlight(r) = 0
                 /\ observed[r].hasResponse
                 /\ observed[r].class = 5
                 /\ observed[r].attempt = Len(sent[r]) - 1
                 /\ call[r].st = "delay"
                 /\ call[r].delay = retryDelay
                 /\ sent'[r] = Append(sent[r], wireRequest(call'[r].config))
                 /\ AttemptsInFlight(r)' = 1]_vars

\* The third attempt of a request is in flight, its first two answered with 5xx,
\* while another request waits between its first and its second attempt.
C24_Witness ==
    \E r1, r2 \in Requests :
        /\ r1 # r2
        /\ Len(sent[r1]) = 3 /\ AnsweredAttempts(r1) = 2 /\ AttemptsInFlight(r1) = 1
        /\ observed[r1].class = 5
        /\ call[r2].st = "delay" /\ Len(sent[r2]) = 1 /\ AttemptsInFlight(r2) = 0

====
